---------------------------- MODULE Spec2Model ----------------------------
(***************************************************************************)
(* Ghost Bus Detection backend (backend/app/main.py): the update pipeline  *)
(* update_bus_position -> GhostDetector.detect_anomalies -> STATE ->       *)
(* ConnectionManager.broadcast, the Redis time-series windows it keeps,    *)
(* and the /ws subscribers.                                                *)
(*                                                                         *)
(* The server is one asyncio event loop: a coroutine runs without          *)
(* interruption from one await to the next, so every action below is the   *)
(* completion of one await together with the code that follows it up to    *)
(* the next await.                                                         *)
(*                                                                         *)
(* Number representation.  Times are whole seconds.  Scores are hundredths *)
(* (0.4 is 40).  Speeds are whole numbers and the mean of a window is kept *)
(* as the pair (sum, count), compared by cross-multiplication, i.e. exact  *)
(* rational arithmetic in place of binary floating point.  Positions lie   *)
(* on one meridian (lon fixed) and lat is measured in metres of arc: there *)
(* dlon = 0, a = sin^2(dlat/2), and 2*R*asin(sqrt(a)) = R*|dlat|, so the   *)
(* haversine distance of two such points is |lat1 - lat2| metres.          *)
(*                                                                         *)
(* Optional[...] values are sequences of length at most one: <<>> is None  *)
(* and <<x>> is the value x.                                               *)
(***************************************************************************)
EXTENDS Integers, Sequences, FiniteSets, TLC

VARIABLES
    now,                 \* the wall clock: time.time()
    redis,               \* the Redis lists, by key
    State,               \* the dict STATE (a reserved word here): vehicle_id -> bus_data
    active_connections,  \* manager.active_connections, a list of websockets
    task,                \* the update_bus_position calls in flight
    ws,                  \* each websocket: its websocket_endpoint coroutine's position
    inbox,               \* each websocket: the messages a send_text delivered to its client
    received,            \* history: how many update_bus_position calls were received
    fed,                 \* history: per vehicle, the records received, in receipt order
    scenario,            \* the environment of this run (clients, inputs); never changes
    verdict              \* detector.py: the last is_ghost_bus call and what it returned

vars == <<now, redis, State, active_connections, task, ws, inbox, received,
          fed, scenario, verdict>>

---------------------------------------------------------------------------
(* Bounds of the model *)

\* Calls of update_bus_position in a run of concurrent clients.
MaxUpdates == 3
\* Calls in a run that feeds one record at a time and looks at the rules.
MaxFeed == 5
\* Calls in a run that feeds the same record over and over (fills a window).
MaxFill == 12
\* Calls in a run with websocket subscribers.
MaxHubUpdates == 2
\* Seconds the clock may advance in a run.
MaxTicks == 5
\* The clock at start-up, in seconds since the epoch.
StartTime == 1000
\* Calls in a run in which Redis commands may fail.
MaxFaultUpdates == 2
\* Calls beyond those that fill a speed window, in a run that overfills one.
MaxOverfill == 1

---------------------------------------------------------------------------
(* Program constants *)

\* `if now - last_ts > 20`
StaleThreshold == 20
\* `ltrim(loc_key, 0, 10)`: the last index kept
LocTrimStop == 10
\* `window: int = 60`
SpeedWindow == 60
\* `if len(locations_raw) >= 5` and `len(vals) < 5`
MinSamples == 5
\* `if total_distance < 5`
NotMovingMeters == 5
\* `ghost_score += 0.4`, in hundredths
StaleWeight == 40
\* `ghost_score += 0.25`, in hundredths
NotMovingWeight == 25
\* `ghost_score += 0.2`, in hundredths
SpeedDropWeight == 20
\* `is_ghost = ghost_score >= 0.6`, in hundredths
GhostThreshold == 60
\* `elif ghost_score > 0.3`, in hundredths
WarningScore == 30
\* `len(anomaly_types) >= 2`
CriticalTags == 2
\* detector.py: `def is_data_stale(self, bus_data, threshold_seconds=90)`
DefaultStaleSeconds == 90
\* detector.py: `score += 0.4`, `score += 0.3`, `min(score, 1.0)` and
\* `score > 0.6`, in hundredths
DetectorStaleWeight == 40
StuckWeight == 30
ScoreCap == 100
DetectorThreshold == 60

\* `R = 6371000.0  # Earth radius in meters`
EarthRadius == 6371000
\* lat = 90 degrees in metres of arc, R * pi / 2, with pi as 22/7 (a little more
\* than pi, so every lat above MaxLat is beyond the pole)
MaxLat == (EarthRadius \div 7) * 11

None == <<>>
Some(x) == <<x>>

Vehicles == {"B101", "B102"}
\* every vehicle_id a caller may send: `vehicle_id: str` admits the empty string
VehicleIds == Vehicles \cup {""}
Tasks == {1, 2}
WebSockets == {"ws1", "ws2"}
\* The meridian every modelled position lies on.
Lon == 77

---------------------------------------------------------------------------
(* Pure helpers *)

Range(s) == {s[i] : i \in 1..Len(s)}

Abs(x) == IF x < 0 THEN -x ELSE x

\* haversine_distance, on one meridian, in metres (see the header).
haversine_distance(lat1, lon1, lat2, lon2) == Abs(lat2 - lat1)

\* Redis LPUSH key value
lpush(list, value) == <<value>> \o list

\* Redis LTRIM key 0 stop: keeps the elements at indexes 0..stop, both included
ltrim(list, stop) == SubSeq(list, 1, IF Len(list) < stop + 1 THEN Len(list) ELSE stop + 1)

loc_key(vehicle_id) == <<"vehicle", vehicle_id, "locations">>
speed_key(vehicle_id) == <<"vehicle", vehicle_id, "speed">>
Keys == {loc_key(v) : v \in VehicleIds} \cup {speed_key(v) : v \in VehicleIds}

RECURSIVE SumSeq(_)
SumSeq(s) == IF s = <<>> THEN 0 ELSE Head(s) + SumSeq(Tail(s))

\* the loop `for i in range(len(locations) - 1)` adding up consecutive distances
RECURSIVE total_distance(_)
total_distance(locations) ==
    IF Len(locations) < 2 THEN 0
    ELSE haversine_distance(locations[1].lat, locations[1].lon,
                            locations[2].lat, locations[2].lon)
         + total_distance(Tail(locations))

\* IsStale with the threshold of 120 s the code had before it was lowered
IsStale_Threshold120(t_now, last_ts) == t_now - last_ts > 120

\* rule 1: `now - last_ts > 20`
IsStale(t_now, last_ts) == t_now - last_ts > StaleThreshold

\* NotMoving asking for more than five samples
NotMoving_MoreThanFive(locations_raw) ==
    /\ Len(locations_raw) > MinSamples
    /\ total_distance(locations_raw) < NotMovingMeters

\* rule 2 on the window lrange returned
NotMoving(locations_raw) ==
    /\ Len(locations_raw) >= MinSamples
    /\ total_distance(locations_raw) < NotMovingMeters

\* get_moving_stats asking for more than five samples
get_moving_stats_MoreThanFive(vals) ==
    IF vals = <<>> \/ Len(vals) <= MinSamples THEN None
    ELSE Some([sum |-> SumSeq(vals), count |-> Len(vals)])

\* get_moving_stats on the values lrange returned: None, or the mean as (sum, count)
get_moving_stats(vals) ==
    IF vals = <<>> \/ Len(vals) < MinSamples THEN None
    ELSE Some([sum |-> SumSeq(vals), count |-> Len(vals)])

\* `current_speed > stats["avg"] * 3`
SpeedSpike(current_speed, stats) == current_speed * stats.count > 3 * stats.sum

\* `stats["avg"] > 0 and current_speed < stats["avg"] * 0.3`
SpeedDrop(current_speed, stats) ==
    /\ stats.sum > 0
    /\ 10 * current_speed * stats.count < 3 * stats.sum

\* rule 3: the tags the speed rule appends, as a list
SpeedTags(current_speed, vals) ==
    LET stats == get_moving_stats(vals) IN
    IF stats = None THEN <<>>
    ELSE IF SpeedSpike(current_speed, stats[1]) THEN <<"speed_spike">>
    ELSE IF SpeedDrop(current_speed, stats[1]) THEN <<"speed_drop">>
    ELSE <<>>

Has(anomaly_types, tag) == tag \in Range(anomaly_types)

\* GhostScore with "speed_spike" scoring like "speed_drop"
GhostScore_SpikeScores(anomaly_types) ==
    (IF Has(anomaly_types, "stale") THEN StaleWeight ELSE 0)
    + (IF Has(anomaly_types, "not_moving") THEN NotMovingWeight ELSE 0)
    + (IF Has(anomaly_types, "speed_drop") \/ Has(anomaly_types, "speed_spike")
       THEN SpeedDropWeight ELSE 0)

\* step 4: the ghost score of a list of tags, in hundredths
GhostScore(anomaly_types) ==
    (IF Has(anomaly_types, "stale") THEN StaleWeight ELSE 0)
    + (IF Has(anomaly_types, "not_moving") THEN NotMovingWeight ELSE 0)
    + (IF Has(anomaly_types, "speed_drop") THEN SpeedDropWeight ELSE 0)

\* FinalSeverity escalating only above two tags
FinalSeverity_MoreThanTwo(anomaly_types, severity, ghost_score) ==
    IF Len(anomaly_types) > CriticalTags THEN "critical"
    ELSE IF ghost_score > WarningScore THEN "warning"
    ELSE severity

\* "Determine final severity"
FinalSeverity(anomaly_types, severity, ghost_score) ==
    IF Len(anomaly_types) >= CriticalTags THEN "critical"
    ELSE IF ghost_score > WarningScore THEN "warning"
    ELSE severity

\* IsGhost with the strict comparison of detector.py (`score > 0.6`)
IsGhost_Strict(ghost_score) == ghost_score > GhostThreshold

\* `is_ghost = ghost_score >= 0.6`
IsGhost(ghost_score) == ghost_score >= GhostThreshold

\* the tuple detect_anomalies returns, as the fields update_bus_position stores
Classification(anomaly_types, severity) ==
    LET ghost_score == GhostScore(anomaly_types)
        is_ghost == IsGhost(ghost_score)
    IN [anomaly |-> Len(anomaly_types) > 0,
        anomaly_types |-> anomaly_types,
        severity |-> FinalSeverity(anomaly_types, severity, ghost_score),
        ghost_score |-> ghost_score,
        is_ghost |-> is_ghost,
        status |-> IF is_ghost THEN "ghost" ELSE "active"]

\* Put as dict.setdefault(key, value): the first value stored for a key stays
Put_KeepFirst(dict, key, value) ==
    [k \in DOMAIN dict \cup {key} |-> IF k \in DOMAIN dict THEN dict[k] ELSE value]

\* dict.update / dict[key] = value on a function with a growing domain
Put(dict, key, value) ==
    [k \in DOMAIN dict \cup {key} |-> IF k = key THEN value ELSE dict[k]]

\* ConnectionManager.disconnect: remove the first occurrence, if there is one
RECURSIVE disconnect(_, _)
disconnect(connections, websocket) ==
    IF connections = <<>> THEN <<>>
    ELSE IF Head(connections) = websocket THEN Tail(connections)
    ELSE <<Head(connections)>> \o disconnect(Tail(connections), websocket)

\* `for conn in disconnected: self.disconnect(conn)`
RECURSIVE disconnect_all(_, _)
disconnect_all(connections, disconnected) ==
    IF disconnected = <<>> THEN connections
    ELSE disconnect_all(disconnect(connections, Head(disconnected)), Tail(disconnected))

\* list_iterator.__next__ after `it` elements were fetched: the next element, or
\* None for StopIteration.  The list is read when the loop advances, not when it starts.
NextConnection(connections, it) ==
    IF it < Len(connections) THEN Some(connections[it + 1]) ELSE None

\* AfterSend with the try around the whole loop: the first failure ends the loop
AfterSend_StopOnError(connections, it, ok) ==
    IF ok THEN NextConnection(connections, it) ELSE None

\* what the loop of broadcast does after a send_text that returned (ok) or raised:
\* the try is inside the loop, so it advances either way
AfterSend(connections, it, ok) == NextConnection(connections, it)

\* `except: disconnected.append(connection)`
OnSendError(disconnected, connection) == Append(disconnected, connection)

\* dict.get(key, default)
Get(dict, key, default) == IF key \in DOMAIN dict THEN dict[key] ELSE default

\* round(num / den, 1) for num >= 0 and den > 0, in tenths: the nearest tenth, a
\* tie going to the even one
RoundTenths(num, den) ==
    LET q == (10 * num) \div den
        r == (10 * num) % den
    IN IF 2 * r < den THEN q
       ELSE IF 2 * r > den THEN q + 1
       ELSE IF q % 2 = 0 THEN q ELSE q + 1

\* get_system_stats counting the records with an anomaly as the ghosts
get_system_stats_CountsAnomalies(state) ==
    LET total == Cardinality(DOMAIN state)
        ghost_count == Cardinality({v \in DOMAIN state : Get(state[v], "anomaly", FALSE)})
        active_count == total - ghost_count
    IN [total_buses |-> total,
        active_buses |-> active_count,
        ghost_buses |-> ghost_count,
        ghost_percentage |-> IF total > 0 THEN RoundTenths(ghost_count * 100, total)
                             ELSE 0]

\* get_system_stats (GET /stats) on the dict STATE; ghost_percentage in tenths of
\* a percent; last_updated is left out
get_system_stats(state) ==
    LET total == Cardinality(DOMAIN state)
        ghost_count == Cardinality({v \in DOMAIN state : Get(state[v], "is_ghost", FALSE)})
        active_count == total - ghost_count
    IN [total_buses |-> total,
        active_buses |-> active_count,
        ghost_buses |-> ghost_count,
        ghost_percentage |-> IF total > 0 THEN RoundTenths(ghost_count * 100, total)
                             ELSE 0]

---------------------------------------------------------------------------
(* The environments a run may have *)

\* An update_bus_position call's timestamp field may be absent, or any number.
Timestamps(sc, t_now) == sc.raw_ts \cup {Some(t_now - a) : a \in sc.ages}

\* Two HTTP clients (or the simulator and one client) posting at the same time.
ConcurrentScenarios ==
    { [conc |-> 2, updates |-> MaxUpdates, vehicles |-> {"B101"}, lats |-> {0, 6},
       speeds |-> {None}, raw_ts |-> {None}, ages |-> {}, sockets |-> {},
       churn |-> TRUE, ticks |-> 0],
      [conc |-> 2, updates |-> MaxUpdates, vehicles |-> Vehicles, lats |-> {0},
       speeds |-> {Some(10)}, raw_ts |-> {}, ages |-> {0}, sockets |-> {},
       churn |-> TRUE, ticks |-> 1],
      [conc |-> 2, updates |-> MaxHubUpdates, vehicles |-> {"B101"}, lats |-> {0},
       speeds |-> {None}, raw_ts |-> {None}, ages |-> {}, sockets |-> WebSockets,
       churn |-> TRUE, ticks |-> 0],
      \* one vehicle fed the same record until its speed window is full, and on
      [conc |-> 2, updates |-> SpeedWindow + MaxOverfill, vehicles |-> {"B101"},
       lats |-> {0}, speeds |-> {Some(10)}, raw_ts |-> {None}, ages |-> {},
       sockets |-> {}, churn |-> TRUE, ticks |-> 0] }

\* One caller (the simulator task alone): each call returns before the next starts.
SequentialScenarios ==
    { \* rules 1 and 2: a vehicle that stands or moves, with fresh or old timestamps
      [conc |-> 1, updates |-> MaxFeed, vehicles |-> {"B101"}, lats |-> {0, 6},
       speeds |-> {None}, raw_ts |-> {}, ages |-> {0, DefaultStaleSeconds + 1},
       sockets |-> {}, churn |-> FALSE, ticks |-> 0],
      \* a standing vehicle whose records are at the staleness threshold or just
      \* past it, with or without a speed
      [conc |-> 1, updates |-> MaxFeed, vehicles |-> {"B101"}, lats |-> {0},
       speeds |-> {None, Some(10), Some(40)}, raw_ts |-> {},
       ages |-> {StaleThreshold, StaleThreshold + 1},
       sockets |-> {}, churn |-> FALSE, ticks |-> 0],
      \* a vehicle that creeps, with zero, usual and very high speeds
      [conc |-> 1, updates |-> MaxFeed, vehicles |-> {"B101"}, lats |-> {0, 2},
       speeds |-> {Some(0), Some(10), Some(130)}, raw_ts |-> {None}, ages |-> {},
       sockets |-> {}, churn |-> FALSE, ticks |-> 0],
      \* all three rules: standing or moving, slow or fast, fresh or old
      [conc |-> 1, updates |-> MaxFeed, vehicles |-> {"B101"}, lats |-> {0, 6},
       speeds |-> {Some(10), Some(130)}, raw_ts |-> {},
       ages |-> {0, StaleThreshold + 1},
       sockets |-> {}, churn |-> FALSE, ticks |-> 0],
      \* a standing vehicle as the clock advances
      [conc |-> 1, updates |-> MaxFeed + 1, vehicles |-> {"B101"}, lats |-> {0},
       speeds |-> {None}, raw_ts |-> {None, Some(0)}, ages |-> {},
       sockets |-> {}, churn |-> FALSE, ticks |-> MaxTicks],
      \* two vehicles fed the same kind of record until the windows are full
      [conc |-> 1, updates |-> MaxFill, vehicles |-> Vehicles, lats |-> {0},
       speeds |-> {Some(10)}, raw_ts |-> {None}, ages |-> {},
       sockets |-> {}, churn |-> FALSE, ticks |-> 0],
      \* subscribers that join, break and leave between broadcasts
      [conc |-> 1, updates |-> MaxHubUpdates, vehicles |-> {"B101"}, lats |-> {0},
       speeds |-> {None}, raw_ts |-> {None}, ages |-> {}, sockets |-> WebSockets,
       churn |-> FALSE, ticks |-> 0] }

---------------------------------------------------------------------------
(* The state machine *)

IdleTask == [pc |-> "idle"]
NoSocket == [pc |-> "none", open |-> FALSE]

InitWith(scenarios) ==
    /\ scenario \in scenarios
    /\ now = StartTime
    /\ redis = [k \in Keys |-> <<>>]
    /\ State = <<>>
    /\ active_connections = <<>>
    /\ task = [t \in Tasks |-> IdleTask]
    /\ ws = [w \in WebSockets |-> NoSocket]
    /\ inbox = [w \in WebSockets |-> <<>>]
    /\ received = 0
    /\ fed = [v \in VehicleIds |-> <<>>]
    /\ verdict = None

Init == InitWith(ConcurrentScenarios)
InitSeq == InitWith(SequentialScenarios)

InFlight == {t \in Tasks : task[t].pc # "idle"}
Broadcasting == {t \in Tasks : task[t].pc = "send"}

\* time passes
Tick ==
    /\ now < StartTime + scenario.ticks
    /\ now' = now + 1
    /\ UNCHANGED <<redis, State, active_connections, task, ws, inbox, received,
                   fed, scenario, verdict>>

\* `bus_data["timestamp"] = bus_data.get("timestamp") or time.time()`
DefaultTimestamp(timestamp, t_now) ==
    IF timestamp = None \/ timestamp = Some(0) THEN t_now ELSE timestamp[1]

\* update_bus_position is called (POST /update_bus, or bus_simulator): it builds
\* bus_data and enters detect_anomalies, which runs rule 1 and awaits the lpush.
Begin(t, vehicle_id, lat, speed, timestamp) ==
    /\ task[t].pc = "idle"
    /\ \A u \in Tasks : u < t => task[u].pc # "idle"
    /\ received < scenario.updates
    /\ Cardinality(InFlight) < scenario.conc
    /\ LET bus_data == [vehicle_id |-> vehicle_id, lat |-> lat, lon |-> Lon,
                         speed |-> speed,
                         timestamp |-> DefaultTimestamp(timestamp, now),
                         last_update |-> now,
                         seq |-> received + 1]
            last_ts == bus_data.timestamp
            stale == IsStale(now, last_ts)
       IN /\ task' = [task EXCEPT ![t] =
                        [pc |-> "lpush_loc", bus_data |-> bus_data, now |-> now,
                         last_ts |-> last_ts,
                         anomaly_types |-> IF stale THEN <<"stale">> ELSE <<>>,
                         severity |-> IF stale THEN "warning" ELSE "info",
                         it |-> 0, connection |-> None, disconnected |-> <<>>,
                         audience |-> {}]]
          /\ fed' = [fed EXCEPT ![vehicle_id] = Append(@, bus_data)]
    /\ received' = received + 1
    /\ UNCHANGED <<now, redis, State, active_connections, ws, inbox, scenario, verdict>>

\* `await self.redis.lpush(loc_key, json.dumps(location_data))`
LpushLoc(t) ==
    /\ task[t].pc = "lpush_loc"
    /\ LET bd == task[t].bus_data
           location_data == [lat |-> bd.lat, lon |-> bd.lon, timestamp |-> task[t].last_ts]
       IN redis' = [redis EXCEPT ![loc_key(bd.vehicle_id)] = lpush(@, location_data)]
    /\ task' = [task EXCEPT ![t].pc = "ltrim_loc"]
    /\ UNCHANGED <<now, State, active_connections, ws, inbox, received, fed, scenario, verdict>>

\* `await self.redis.ltrim(loc_key, 0, 10)`
LtrimLoc(t) ==
    /\ task[t].pc = "ltrim_loc"
    /\ redis' = [redis EXCEPT ![loc_key(task[t].bus_data.vehicle_id)] = ltrim(@, LocTrimStop)]
    /\ task' = [task EXCEPT ![t].pc = "lrange_loc"]
    /\ UNCHANGED <<now, State, active_connections, ws, inbox, received, fed, scenario, verdict>>

\* detect_anomalies returns; update_bus_position stores the record in STATE and
\* calls broadcast, which runs up to its first send_text, or returns at once when
\* nobody is connected, and then update_bus_position returns too.
\* (audience is history: the handles subscribed when the broadcast began.)
StoreAndBroadcast(t, anomaly_types, severity) ==
    LET bus_data == task[t].bus_data @@ Classification(anomaly_types, severity)
        first == NextConnection(active_connections, 0)
    IN /\ State' = Put(State, bus_data.vehicle_id, bus_data)
       /\ task' = [task EXCEPT ![t] =
                     IF first = None THEN IdleTask
                     ELSE [task[t] EXCEPT !.pc = "send", !.bus_data = bus_data,
                                          !.anomaly_types = anomaly_types,
                                          !.it = 1, !.connection = first,
                                          !.disconnected = <<>>,
                                          !.audience = Range(active_connections)]]

\* `locations_raw = await self.redis.lrange(loc_key, 0, -1)`, then rule 2, then
\* either the speed rule's first await or the rest of the call.
LrangeLoc(t) ==
    /\ task[t].pc = "lrange_loc"
    /\ LET bd == task[t].bus_data
           locations_raw == redis[loc_key(bd.vehicle_id)]
           not_moving == NotMoving(locations_raw)
           anomaly_types == IF not_moving THEN Append(task[t].anomaly_types, "not_moving")
                            ELSE task[t].anomaly_types
           severity == IF not_moving /\ task[t].severity = "info" THEN "warning"
                       ELSE task[t].severity
       IN IF bd.speed # None
          THEN /\ task' = [task EXCEPT ![t] =
                             [task[t] EXCEPT !.pc = "lpush_spd",
                                             !.anomaly_types = anomaly_types,
                                             !.severity = severity]]
               /\ UNCHANGED State
          ELSE StoreAndBroadcast(t, anomaly_types, severity)
    /\ UNCHANGED <<now, redis, active_connections, ws, inbox, received, fed, scenario, verdict>>

\* push_series: `await self.redis.lpush(key, str(value))`
LpushSpeed(t) ==
    /\ task[t].pc = "lpush_spd"
    /\ LET bd == task[t].bus_data
       IN redis' = [redis EXCEPT ![speed_key(bd.vehicle_id)] = lpush(@, bd.speed[1])]
    /\ task' = [task EXCEPT ![t].pc = "ltrim_spd"]
    /\ UNCHANGED <<now, State, active_connections, ws, inbox, received, fed, scenario, verdict>>

\* push_series: `await self.redis.ltrim(key, 0, window - 1)`
LtrimSpeed(t) ==
    /\ task[t].pc = "ltrim_spd"
    /\ redis' = [redis EXCEPT ![speed_key(task[t].bus_data.vehicle_id)] =
                                   ltrim(@, SpeedWindow - 1)]
    /\ task' = [task EXCEPT ![t].pc = "lrange_spd"]
    /\ UNCHANGED <<now, State, active_connections, ws, inbox, received, fed, scenario, verdict>>

\* get_moving_stats: `vals = await self.redis.lrange(key, 0, -1)`, then rule 3 and
\* the rest of the call.
LrangeSpeed(t) ==
    /\ task[t].pc = "lrange_spd"
    /\ LET bd == task[t].bus_data
           vals == redis[speed_key(bd.vehicle_id)]
       IN StoreAndBroadcast(t, task[t].anomaly_types \o SpeedTags(bd.speed[1], vals),
                            task[t].severity)
    /\ UNCHANGED <<now, redis, active_connections, ws, inbox, received, fed, scenario, verdict>>

\* broadcast: `await connection.send_text(json.dumps(message))` returns or raises;
\* the loop advances; after the last connection the failed ones are removed and
\* broadcast and update_bus_position return.
Send(t) ==
    /\ task[t].pc = "send"
    /\ LET connection == task[t].connection[1]
           ok == ws[connection].open
           message == [type |-> "bus.update", data |-> task[t].bus_data]
           disconnected == IF ok THEN task[t].disconnected
                           ELSE OnSendError(task[t].disconnected, connection)
           next == AfterSend(active_connections, task[t].it, ok)
       IN /\ inbox' = IF ok THEN [inbox EXCEPT ![connection] = Append(@, message)]
                      ELSE inbox
          /\ IF next # None
             THEN /\ task' = [task EXCEPT ![t] =
                                [task[t] EXCEPT !.it = @ + 1, !.connection = next,
                                                !.disconnected = disconnected]]
                  /\ UNCHANGED active_connections
             ELSE /\ active_connections' = disconnect_all(active_connections, disconnected)
                  /\ task' = [task EXCEPT ![t] = IdleTask]
    /\ UNCHANGED <<now, redis, State, ws, received, fed, scenario, verdict>>

\* In a run without churn the server handles websocket events only between broadcasts.
EndpointMayRun == scenario.churn \/ Broadcasting = {}

\* websocket_endpoint: manager.connect (accept, append), then the snapshot is
\* built from STATE and its send_text awaited.
WsConnect(websocket) ==
    /\ websocket \in scenario.sockets
    /\ ws[websocket].pc = "none"
    /\ EndpointMayRun
    /\ active_connections' = Append(active_connections, websocket)
    /\ ws' = [ws EXCEPT ![websocket] =
                 [pc |-> "snapshot", open |-> TRUE,
                  snapshot |-> [type |-> "snapshot",
                                data |-> {State[v] : v \in DOMAIN State}]]]
    /\ UNCHANGED <<now, redis, State, task, inbox, received, fed, scenario, verdict>>

\* websocket_endpoint: the snapshot's send_text returns, and the coroutine waits in
\* receive_text; or it raises, and the coroutine disconnects and ends.
WsSnapshot(websocket) ==
    /\ ws[websocket].pc = "snapshot"
    /\ EndpointMayRun
    /\ IF ws[websocket].open
       THEN /\ inbox' = [inbox EXCEPT ![websocket] = Append(@, ws[websocket].snapshot)]
            /\ ws' = [ws EXCEPT ![websocket] = [pc |-> "listening", open |-> TRUE]]
            /\ UNCHANGED active_connections
       ELSE /\ active_connections' = disconnect(active_connections, websocket)
            /\ ws' = [ws EXCEPT ![websocket] = [pc |-> "closed", open |-> FALSE]]
            /\ UNCHANGED inbox
    /\ UNCHANGED <<now, redis, State, task, received, fed, scenario, verdict>>

\* the client goes away: from now on send_text and receive_text on it raise
WsDrop(websocket) ==
    /\ ws[websocket].pc \in {"snapshot", "listening"}
    /\ ws[websocket].open
    /\ ws' = [ws EXCEPT ![websocket].open = FALSE]
    /\ UNCHANGED <<now, redis, State, active_connections, task, inbox, received,
                   fed, scenario, verdict>>

\* websocket_endpoint: receive_text raises WebSocketDisconnect: manager.disconnect
WsReceive(websocket) ==
    /\ ws[websocket].pc = "listening"
    /\ ~ws[websocket].open
    /\ EndpointMayRun
    /\ active_connections' = disconnect(active_connections, websocket)
    /\ ws' = [ws EXCEPT ![websocket] = [pc |-> "closed", open |-> FALSE]]
    /\ UNCHANGED <<now, redis, State, task, inbox, received, fed, scenario, verdict>>

Receive ==
    \E t \in Tasks, vehicle_id \in scenario.vehicles, lat \in scenario.lats,
       speed \in scenario.speeds, timestamp \in Timestamps(scenario, now) :
        Begin(t, vehicle_id, lat, speed, timestamp)

Next ==
    \/ Tick
    \/ Receive
    \/ \E t \in Tasks : LpushLoc(t)
    \/ \E t \in Tasks : LtrimLoc(t)
    \/ \E t \in Tasks : LrangeLoc(t)
    \/ \E t \in Tasks : LpushSpeed(t)
    \/ \E t \in Tasks : LtrimSpeed(t)
    \/ \E t \in Tasks : LrangeSpeed(t)
    \/ \E t \in Tasks : Send(t)
    \/ \E w \in WebSockets : WsConnect(w)
    \/ \E w \in WebSockets : WsSnapshot(w)
    \/ \E w \in WebSockets : WsDrop(w)
    \/ \E w \in WebSockets : WsReceive(w)

\* concurrent callers
Spec == Init /\ [][Next]_vars
\* one caller at a time
SpecSeq == InitSeq /\ [][Next]_vars

\* One caller at a time, in an environment that misbehaves.
FaultScenarios ==
    { \* Redis commands may fail; one subscriber
      [conc |-> 1, updates |-> MaxFaultUpdates, vehicles |-> {"B101"}, lats |-> {0, 6},
       speeds |-> {None, Some(10)}, raw_ts |-> {None}, ages |-> {},
       sockets |-> {"ws1"}, churn |-> FALSE, ticks |-> 1, faults |-> TRUE],
      \* a caller that sends an empty vehicle_id or a lat beyond the pole
      [conc |-> 1, updates |-> MaxHubUpdates, vehicles |-> {"", "B101"},
       lats |-> {0, MaxLat + 1}, speeds |-> {None}, raw_ts |-> {None}, ages |-> {},
       sockets |-> {"ws1"}, churn |-> FALSE, ticks |-> 0, faults |-> FALSE],
      \* two standing vehicles with fresh or old records
      [conc |-> 1, updates |-> MaxFeed + 1, vehicles |-> Vehicles, lats |-> {0},
       speeds |-> {None}, raw_ts |-> {}, ages |-> {0, StaleThreshold + 1},
       sockets |-> {}, churn |-> FALSE, ticks |-> 0, faults |-> FALSE],
      \* a caller that sends the epoch, or the time a second ago, as the timestamp
      [conc |-> 1, updates |-> MaxFeed, vehicles |-> {"B101"}, lats |-> {0},
       speeds |-> {None}, raw_ts |-> {Some(0)}, ages |-> {1},
       sockets |-> {}, churn |-> FALSE, ticks |-> 0, faults |-> FALSE] }

InitErr == InitWith(FaultScenarios)

\* the awaits of detect_anomalies, each a Redis command
RedisAwaits == {"lpush_loc", "ltrim_loc", "lrange_loc", "lpush_spd", "ltrim_spd",
                "lrange_spd"}

\* A Redis command of detect_anomalies raises (the command is not applied): the
\* exception leaves detect_anomalies, `except Exception as e: print(...)` of
\* update_bus_position catches it, bus_data.update(...) has not run, and the
\* function goes on: `STATE[vehicle_id] = bus_data` and the broadcast.
DetectionError(t) ==
    /\ scenario.faults
    /\ task[t].pc \in RedisAwaits
    /\ LET bus_data == task[t].bus_data
           first == NextConnection(active_connections, 0)
       IN /\ State' = Put(State, bus_data.vehicle_id, bus_data)
          /\ task' = [task EXCEPT ![t] =
                        IF first = None THEN IdleTask
                        ELSE [task[t] EXCEPT !.pc = "send", !.it = 1,
                                             !.connection = first,
                                             !.disconnected = <<>>,
                                             !.audience = Range(active_connections)]]
    /\ UNCHANGED <<now, redis, active_connections, ws, inbox, received, fed, scenario, verdict>>

NextErr ==
    \/ Next
    \/ \E t \in Tasks : DetectionError(t)

\* one caller at a time; Redis may fail; callers send whatever BusUpdate admits
SpecErr == InitErr /\ [][NextErr]_vars

\* The simulator task alone, feeding two vehicles in turn, with one subscriber.
SimulatorScenarios ==
    { [conc |-> 1, updates |-> MaxHubUpdates, vehicles |-> Vehicles, lats |-> {0},
       speeds |-> {Some(10)}, raw_ts |-> {None}, ages |-> {}, sockets |-> {"ws1"},
       churn |-> TRUE, ticks |-> 1] }

InitLive == InitWith(SimulatorScenarios)

\* What the scheduling guarantees.  The event loop resumes every coroutine whose
\* await has completed; Redis answers every command; the simulator's loop goes
\* on to its next update once a call has returned; a websocket_endpoint
\* coroutine is resumed when its send or receive has completed or raised.
\* A send_text of broadcast on a broken connection raises.  On a connection
\* that is up nothing makes it complete: it is awaited with no timeout and
\* completes when the peer takes the data, so there Send has no fairness
\* condition.
SendRaises(t) == Send(t) /\ ~ws[task[t].connection[1]].open

Fairness ==
    /\ WF_vars(Receive)
    /\ \A t \in Tasks : WF_vars(SendRaises(t))
    /\ \A t \in Tasks :
           /\ WF_vars(LpushLoc(t)) /\ WF_vars(LtrimLoc(t)) /\ WF_vars(LrangeLoc(t))
           /\ WF_vars(LpushSpeed(t)) /\ WF_vars(LtrimSpeed(t)) /\ WF_vars(LrangeSpeed(t))
    /\ \A w \in WebSockets : WF_vars(WsSnapshot(w)) /\ WF_vars(WsReceive(w))

\* the simulator alone, under fair scheduling
SpecLive == InitLive /\ [][Next]_vars /\ Fairness

---------------------------------------------------------------------------
(* The standalone detector module (backend/app/detector.py).  Its methods do not
   await: a call is one step.  bus_data is the dict ingester.py builds, with an
   'id' and, unless it was left out, a 'timestamp'. *)

\* is_data_stale, with the clock it reads as a parameter
is_data_stale(current_time, bus_data, threshold_seconds) ==
    LET bus_time == Get(bus_data, "timestamp", 0)
    IN (current_time - bus_time) > threshold_seconds

\* is_bus_stuck finding every bus stuck
is_bus_stuck_AlwaysStuck(bus_id) == TRUE

\* is_bus_stuck: `return False`
is_bus_stuck(bus_id) == FALSE

\* calculate_ghost_score, in hundredths
calculate_ghost_score(current_time, bus_data) ==
    LET score == (IF is_data_stale(current_time, bus_data, DefaultStaleSeconds)
                  THEN DetectorStaleWeight ELSE 0)
                 + (IF is_bus_stuck(bus_data.id) THEN StuckWeight ELSE 0)
    IN IF score < ScoreCap THEN score ELSE ScoreCap

\* is_ghost_bus
is_ghost_bus(current_time, bus_data) ==
    LET score == calculate_ghost_score(current_time, bus_data)
    IN score > DetectorThreshold

\* the dict of ingester.py, with or without a timestamp
BusInfo(id, timestamp) ==
    IF timestamp = None THEN [id |-> id]
    ELSE [id |-> id, timestamp |-> timestamp[1]]

\* Buses whose records are absent-stamped, stamped 0, fresh, just at the
\* threshold of 90 s or beyond it, as the clock advances.
DetectorScenarios ==
    { [conc |-> 1, updates |-> 0, vehicles |-> Vehicles, lats |-> {0},
       speeds |-> {None}, raw_ts |-> {None, Some(0)},
       ages |-> {0, DefaultStaleSeconds, DefaultStaleSeconds + 1},
       sockets |-> {}, churn |-> FALSE, ticks |-> MaxTicks] }

InitDetector == InitWith(DetectorScenarios)

\* GhostDetector.is_ghost_bus(bus_data) is called and returns
IsGhostBus(id, timestamp) ==
    /\ LET bus_data == BusInfo(id, timestamp)
       IN verdict' = Some([bus_data |-> bus_data,
                           current_time |-> now,
                           stale |-> is_data_stale(now, bus_data, DefaultStaleSeconds),
                           ghost_score |-> calculate_ghost_score(now, bus_data),
                           is_ghost |-> is_ghost_bus(now, bus_data)])
    /\ UNCHANGED <<now, redis, State, active_connections, task, ws, inbox, received,
                   fed, scenario>>

NextDetector ==
    \/ Tick
    \/ \E id \in scenario.vehicles, timestamp \in Timestamps(scenario, now) :
           IsGhostBus(id, timestamp)

\* the standalone detector, called on any record at any time
SpecDetector == InitDetector /\ [][NextDetector]_vars

---------------------------------------------------------------------------
(* Claims *)

VehicleOf(t) == task[t].bus_data.vehicle_id
\* the calls for a vehicle that have not returned
CallsFor(vehicle_id) == {t \in InFlight : VehicleOf(t) = vehicle_id}
\* the calls for a vehicle that are still inside detect_anomalies
Detecting(vehicle_id) == {t \in CallsFor(vehicle_id) : task[t].pc # "send"}
Last(s) == s[Len(s)]
Min(a, b) == IF a < b THEN a ELSE b
Locations(vehicle_id) == redis[loc_key(vehicle_id)]
Speeds(vehicle_id) == redis[speed_key(vehicle_id)]

\* C1: updates for one vehicle_id are applied in receipt order, so once the calls
\* for a vehicle have all returned, STATE holds the record of the call that was
\* received last.
C1_ReceiptOrder ==
    \A v \in Vehicles :
        (CallsFor(v) = {} /\ v \in DOMAIN State) => State[v].seq = Last(fed[v]).seq

\* `location_window_size` (default 10); "Keep last 10 positions"
LocationWindowSize == 10

\* C2: after any sequence of processed records the locations window of every
\* vehicle holds at most 10 samples.
C2_LocationsAtMostTen ==
    \A v \in Vehicles :
        Detecting(v) = {} => Len(Locations(v)) <= LocationWindowSize

\* the location sample and the speed sample a record carries
LocationOf(bus_data) ==
    [lat |-> bus_data.lat, lon |-> bus_data.lon, timestamp |-> bus_data.timestamp]
WithSpeed(records) == {i \in 1..Len(records) : records[i].speed # None}

\* C3 (state part): after N processed records per vehicle, each vehicle's
\* locations window and speed window has length min(N, window_size) and holds
\* only values of that vehicle's own records.
C3_OwnWindows ==
    \A v \in Vehicles :
        Detecting(v) = {} =>
            /\ Len(Locations(v)) = Min(Len(fed[v]), LocationWindowSize)
            /\ Len(Speeds(v)) = Min(Cardinality(WithSpeed(fed[v])), SpeedWindow)
            /\ \A i \in 1..Len(Locations(v)) :
                   \E j \in 1..Len(fed[v]) : Locations(v)[i] = LocationOf(fed[v][j])
            /\ \A i \in 1..Len(Speeds(v)) :
                   \E j \in WithSpeed(fed[v]) : Speeds(v)[i] = fed[v][j].speed[1]

Stored(dict, key) == IF key \in DOMAIN dict THEN Some(dict[key]) ELSE None

\* C3 (frame part): a step of a call for vehicle A leaves the windows and the
\* stored state of every other vehicle unchanged.
C3_Frame ==
    \A t \in Tasks :
        (task[t].pc \notin {"idle", "send"}) /\ task'[t] # task[t] =>
            \A v \in Vehicles \ {VehicleOf(t)} :
                /\ Locations(v)' = Locations(v)
                /\ Speeds(v)' = Speeds(v)
                /\ Stored(State', v) = Stored(State, v)

\* C3: concurrent updates to different vehicle ids never cross-contaminate.
C3_NoCrossContamination == []C3_OwnWindows /\ [][C3_Frame]_vars

---------------------------------------------------------------------------
(* The classification rules, one caller at a time (SpecSeq).  There, whenever no
   call for a vehicle is inside detect_anomalies, STATE holds the classification
   of the last record fed for it and Redis holds the windows that classification
   read. *)

Classified(v) == v \in DOMAIN State /\ Detecting(v) = {}
Tags(v) == Range(State[v].anomaly_types)
Bit(b) == IF b THEN 1 ELSE 0
\* how old the record was when detect_anomalies read the clock
Age(bus_data) == bus_data.last_update - bus_data.timestamp

\* C4: a record older than the staleness threshold (the 20 s of the code, and so
\* also the 90 s default) is always tagged "stale", and then
\* ghost_score = 0.4 + 0.25*[not_moving] + 0.2*[speed_drop].
C4_StaleAlwaysTagged ==
    \A v \in Vehicles :
        Classified(v) /\ (Age(State[v]) > 20 \/ Age(State[v]) > DefaultStaleSeconds) =>
            /\ "stale" \in Tags(v)
            /\ State[v].ghost_score = 40 + 25 * Bit("not_moving" \in Tags(v))
                                         + 20 * Bit("speed_drop" \in Tags(v))

\* C4 happens: an old record of a standing vehicle, tagged for both reasons.
C4_Witness ==
    \E v \in Vehicles :
        /\ Classified(v)
        /\ Age(State[v]) > DefaultStaleSeconds
        /\ State[v].anomaly_types = <<"stale", "not_moving">>
        /\ State[v].ghost_score = 65

SamePlace(a, b) == a.lat = b.lat /\ a.lon = b.lon
AllSamePlace(records) ==
    \A i, j \in 1..Len(records) : SamePlace(records[i], records[j])
\* each record more than 5 m from the one before it
AlwaysMoving(records) ==
    \A i \in 1..(Len(records) - 1) :
        ~SamePlace(records[i], records[i + 1])
        /\ haversine_distance(records[i].lat, records[i].lon,
                               records[i + 1].lat, records[i + 1].lon) > 5

\* C5: of records with one and the same position, the fifth and every later one
\* is tagged "not_moving" and the first four are not; no record of a vehicle
\* that moved more than 5 m every time is tagged; and the new point counts: a
\* record more than 5 m from the previous one is never tagged.
C5_NotMovingRule ==
    \A v \in Vehicles :
        Classified(v) =>
            /\ Len(fed[v]) < 5 => "not_moving" \notin Tags(v)
            /\ Len(fed[v]) >= 5 /\ AllSamePlace(fed[v]) => "not_moving" \in Tags(v)
            /\ Len(fed[v]) >= 5 /\ AlwaysMoving(fed[v]) => "not_moving" \notin Tags(v)
            /\ Locations(v)[1] = LocationOf(State[v])
            /\ Len(fed[v]) >= 2 /\ Abs(Last(fed[v]).lat - fed[v][Len(fed[v]) - 1].lat) > 5
                   => "not_moving" \notin Tags(v)

\* C5 happens: the sixth of six records at one position, with increasing timestamps.
C5_Witness ==
    \E v \in Vehicles :
        /\ Classified(v)
        /\ Len(fed[v]) = 6
        /\ AllSamePlace(fed[v])
        /\ \A i \in 1..5 : fed[v][i].timestamp < fed[v][i + 1].timestamp
        /\ "not_moving" \in Tags(v)

\* C6: severity is "critical" exactly when two or more tags fired; with one tag it
\* is "warning" for "stale" and "not_moving" and "info" for "speed_spike" and
\* "speed_drop"; with no tag it is "info".  The tags of a record are distinct.
C6_Severity ==
    \A v \in Vehicles :
        Classified(v) =>
            LET types == State[v].anomaly_types
                severity == State[v].severity
            IN /\ Cardinality(Tags(v)) = Len(types)
               /\ (severity = "critical") <=> (Len(types) >= 2)
               /\ Len(types) = 1 /\ types[1] \in {"stale", "not_moving"}
                      => severity = "warning"
               /\ Len(types) = 1 /\ types[1] \in {"speed_spike", "speed_drop"}
                      => severity = "info"
               /\ Len(types) = 0 => severity = "info"

\* C6 happens: two tags that add only 0.25 to the score still make it critical.
C6_Witness ==
    \E v \in Vehicles :
        /\ Classified(v)
        /\ State[v].anomaly_types = <<"not_moving", "speed_spike">>
        /\ State[v].severity = "critical"

\* every message delivered to a client
Delivered == UNION {Range(inbox[w]) : w \in WebSockets}

\* every classified record there is: in STATE, in a running broadcast, delivered
ClassifiedRecords ==
    {State[v] : v \in DOMAIN State}
    \cup {task[t].bus_data : t \in Broadcasting}
    \cup {m.data : m \in {x \in Delivered : x.type = "bus.update"}}
    \cup UNION {m.data : m \in {x \in Delivered : x.type = "snapshot"}}

\* C7: is_ghost == (ghost_score >= 0.6), and status is "ghost" exactly when
\* is_ghost, "active" otherwise, in every classified record.
C7_IsGhostIffScore ==
    \A r \in ClassifiedRecords :
        /\ r.is_ghost <=> (r.ghost_score >= 60)
        /\ r.status = IF r.is_ghost THEN "ghost" ELSE "active"

\* C7 happens: a score of exactly 0.6 (stale and speed_drop) is a ghost.
C7_Witness ==
    \E v \in Vehicles :
        /\ Classified(v)
        /\ State[v].ghost_score = 60
        /\ State[v].is_ghost
        /\ State[v].status = "ghost"

\* C8: ghost_score is within [0, 1]; it is at most 0.85; "speed_spike" adds nothing.
C8_ScoreRange ==
    \A r \in ClassifiedRecords :
        LET tags == Range(r.anomaly_types) IN
        /\ 0 <= r.ghost_score /\ r.ghost_score <= 100
        /\ r.ghost_score <= 85
        /\ r.ghost_score = 40 * Bit("stale" \in tags) + 25 * Bit("not_moving" \in tags)
                            + 20 * Bit("speed_drop" \in tags)

\* C8 happens: all three scoring rules fire and the score is 0.85.
C8_Witness ==
    \E v \in Vehicles :
        /\ Classified(v)
        /\ State[v].anomaly_types = <<"stale", "not_moving", "speed_drop">>
        /\ State[v].ghost_score = 85

\* the speeds of the records that carry one, newest first
RECURSIVE SpeedsFed(_)
SpeedsFed(records) ==
    IF records = <<>> THEN <<>>
    ELSE LET r == Last(records)
             rest == SpeedsFed(SubSeq(records, 1, Len(records) - 1))
         IN IF r.speed = None THEN rest ELSE <<r.speed[1]>> \o rest

\* C9: a record's speed is pushed to the speed window first; with 5 or more
\* samples of mean m the record is tagged "speed_spike" iff speed > 3*m and
\* "speed_drop" iff m > 0 and speed < 0.3*m, never both; with fewer than 5
\* samples, or without a speed, neither; and a record without a speed leaves the
\* speed window as it was.
C9_SpeedRule ==
    \A v \in Vehicles :
        Classified(v) =>
            LET r == State[v]
                vals == Speeds(v)
                n == Len(vals)
                total == SumSeq(vals)
                spike == "speed_spike" \in Tags(v)
                drop == "speed_drop" \in Tags(v)
            IN /\ vals = SpeedsFed(fed[v])
               /\ ~(spike /\ drop)
               /\ r.speed = None \/ n < 5 => ~spike /\ ~drop
               /\ r.speed # None /\ n >= 5 =>
                      /\ vals[1] = r.speed[1]
                      /\ spike <=> (r.speed[1] * n > 3 * total)
                      /\ drop <=> (total > 0 /\ 10 * r.speed[1] * n < 3 * total)

\* C9 happens: the fifth speed of a vehicle is more than three times the mean.
C9_Witness ==
    \E v \in Vehicles :
        /\ Classified(v)
        /\ State[v].speed # None
        /\ Len(Speeds(v)) = 5
        /\ State[v].speed[1] * 5 > 3 * SumSeq(Speeds(v))
        /\ "speed_spike" \in Tags(v)

\* C19: the staleness threshold is stale_threshold_seconds, 90 by default: a
\* record is tagged "stale" only if now - timestamp > 90, so a record whose age
\* is at most 90 s is never tagged "stale".
C19_StaleOnlyAboveNinety ==
    \A v \in Vehicles :
        Classified(v) /\ "stale" \in Tags(v) => Age(State[v]) > DefaultStaleSeconds

---------------------------------------------------------------------------
(* ConnectionManager.broadcast, with subscribers joining and leaving only between
   broadcasts (SpecSeq) *)

UpdateMessage(bus_data) == [type |-> "bus.update", data |-> bus_data]
Got(box, message) == message \in Range(box)
\* this step is the return of the broadcast of call t
Returns(t) == task[t].pc = "send" /\ task'[t].pc = "idle"

\* C10 (one step): when a broadcast returns, every subscriber has either got the
\* message and is still subscribed, or did not get it, has a broken connection
\* and is unsubscribed: a failed send keeps the message from nobody else, the
\* failing subscriber is removed, and nobody else is.
C10_OnReturn ==
    \A t \in Tasks :
        Returns(t) =>
            /\ \A w \in Range(active_connections) :
                   LET got == Got(inbox'[w], UpdateMessage(task[t].bus_data))
                   IN /\ got <=> (w \in Range(active_connections'))
                      /\ ~got => ~ws[w].open
            /\ Range(active_connections') \subseteq Range(active_connections)
            /\ State' = State

---------------------------------------------------------------------------
(* ConnectionManager.broadcast, with subscribers joining and leaving while a
   broadcast is suspended in a send (Spec) *)

\* how many times a message is in a client's inbox
RECURSIVE Count(_, _)
Count(box, message) ==
    IF box = <<>> THEN 0
    ELSE Bit(Head(box) = message) + Count(Tail(box), message)

\* C11 (one step): when a broadcast returns, every handle that was subscribed when
\* it began and is still subscribed has the record, exactly once, and no handle
\* has it twice.  (A handle that leaves never comes back, so these are the
\* handles subscribed for the whole duration.)
C11_OnReturn ==
    \A t \in Tasks :
        Returns(t) =>
            LET message == UpdateMessage(task[t].bus_data)
            IN /\ \A w \in task[t].audience \cap Range(active_connections') :
                      Count(inbox'[w], message) = 1
               /\ \A w \in WebSockets : Count(inbox'[w], message) <= 1

\* C11: broadcast skips no handle that stays subscribed, whatever the others do.
C11_NoSubscriberSkipped == [][C11_OnReturn]_vars

\* the handles whose snapshot was delivered and that are still subscribed
Listening == {w \in Range(active_connections) : ws[w].pc = "listening"}
InSnapshot(box, bus_data) ==
    \E i \in 1..Len(box) : box[i].type = "snapshot" /\ bus_data \in box[i].data

\* C12: a subscriber misses nothing: once every broadcast has returned, each
\* subscriber holds the stored record of every vehicle, in its snapshot if the
\* record was stored before the subscriber registered and as a later broadcast
\* if it was stored after.  (In which order the server writes two messages whose
\* sends are pending on one socket is the ASGI server's business, and is not
\* part of this statement.)
C12_NothingMissed ==
    Broadcasting = {} =>
        \A w \in Listening, v \in DOMAIN State :
            InSnapshot(inbox[w], State[v]) \/ Got(inbox[w], UpdateMessage(State[v]))

---------------------------------------------------------------------------
(* The pipeline's progress (SpecLive) *)

\* C13: broadcasting cannot block the pipeline indefinitely: every
\* update_bus_position call eventually returns, and the updates that are still
\* to come (those of the other vehicles) are eventually received.
C13_PipelineNeverBlocked ==
    /\ \A t \in Tasks : (task[t].pc # "idle") ~> (task[t].pc = "idle")
    /\ <>(received = scenario.updates)

---------------------------------------------------------------------------
(* Failures and bad input, one caller at a time (SpecErr) *)

\* detect_anomalies returned for this record and its result was merged into it
IsClassified(bus_data) == "is_ghost" \in DOMAIN bus_data
UpdatesDelivered == {m.data : m \in {x \in Delivered : x.type = "bus.update"}}

\* C14: a record whose processing met a storage failure is skipped.  No record
\* that was never classified is stored in STATE or published; and once every
\* call has returned, a vehicle's windows are those of its stored record: their
\* newest location is the stored record's, and a vehicle with no stored record
\* has empty windows.
C14_FailedRecordSkipped ==
    /\ \A v \in DOMAIN State : IsClassified(State[v])
    /\ \A t \in Broadcasting : IsClassified(task[t].bus_data)
    /\ \A r \in UpdatesDelivered : IsClassified(r)
    /\ InFlight = {} =>
           \A v \in Vehicles :
               IF v \in DOMAIN State
               THEN Locations(v) # <<>> /\ Locations(v)[1] = LocationOf(State[v])
               ELSE Locations(v) = <<>> /\ Speeds(v) = <<>>

\* vehicle_id non-empty, lat within +-90 degrees, lon within +-180 degrees
ValidRecord(bus_data) ==
    /\ bus_data.vehicle_id # ""
    /\ -MaxLat <= bus_data.lat /\ bus_data.lat <= MaxLat
    /\ -180 <= bus_data.lon /\ bus_data.lon <= 180

\* C15: a record with an empty vehicle_id or a position out of range is rejected
\* before it enters the pipeline: no call in flight works on one, STATE holds
\* none, no time-series window holds a sample of one, and no subscriber got one.
C15_InvalidRejected ==
    /\ \A t \in InFlight : ValidRecord(task[t].bus_data)
    /\ \A v \in DOMAIN State : ValidRecord(State[v])
    /\ \A r \in UpdatesDelivered : ValidRecord(r)
    /\ redis[loc_key("")] = <<>> /\ redis[speed_key("")] = <<>>
    /\ \A v \in Vehicles : \A i \in 1..Len(Locations(v)) :
           -MaxLat <= Locations(v)[i].lat /\ Locations(v)[i].lat <= MaxLat

\* the vehicles whose stored record says is_ghost
Ghosts == {v \in DOMAIN State : IsClassified(State[v]) /\ State[v].is_ghost}

\* C16: in every reachable state, stats() reports total = the number of vehicles
\* in STATE, ghost = the number of stored records with is_ghost true,
\* active + ghost = total, and ghost_percentage = ghost/total*100 to the nearest
\* tenth (at most half a tenth away), which is 0 when there is no vehicle.
C16_StatsConsistent ==
    LET stats == get_system_stats(State)
        total == Cardinality(DOMAIN State)
    IN /\ stats.total_buses = total
       /\ stats.ghost_buses = Cardinality(Ghosts)
       /\ stats.active_buses + stats.ghost_buses = stats.total_buses
       /\ total = 0 => stats.ghost_percentage = 0
       /\ total > 0 =>
              2 * Abs(stats.ghost_percentage * total - 1000 * Cardinality(Ghosts)) <= total

\* C16 happens: of two vehicles one is a ghost and stats() says 50.0 percent.
C16_Witness ==
    /\ Cardinality(DOMAIN State) = 2
    /\ Cardinality(Ghosts) = 1
    /\ get_system_stats(State) = [total_buses |-> 2, active_buses |-> 1,
                                  ghost_buses |-> 1, ghost_percentage |-> 500]

\* the timestamps the caller of this run may have put in a record it sent
SuppliedTo(bus_data) == {x[1] : x \in Timestamps(scenario, bus_data.last_update)}

\* C18: the current time is substituted only for an absent timestamp.  In a run
\* whose caller always supplies a timestamp, every record received keeps a
\* value the caller supplied (0, the epoch, included), and the staleness rule
\* judged the stored record by its stored timestamp.
C18_SuppliedTimestampKept ==
    None \notin scenario.raw_ts =>
        /\ \A v \in VehicleIds : \A i \in 1..Len(fed[v]) :
               fed[v][i].timestamp \in SuppliedTo(fed[v][i])
        /\ \A v \in DOMAIN State :
               IsClassified(State[v]) =>
                   ("stale" \in Tags(v)) <=> (Age(State[v]) > StaleThreshold)

\* the stored record carries every field of the record the call built from its
\* input (and, when detection succeeded, the classification besides)
BuiltFrom(stored, bus_data) ==
    \A f \in DOMAIN bus_data : f \in DOMAIN stored /\ stored[f] = bus_data[f]

\* C20 (state part): a vehicle has a state only once a record for its id was
\* received; and once a call for it has completed, with no other call for the
\* same id, STATE holds the record built from that call's input.
C20_CreatedAndReplaced ==
    \A v \in VehicleIds :
        /\ fed[v] = <<>> => v \notin DOMAIN State
        /\ CallsFor(v) = {} /\ fed[v] # <<>> =>
               v \in DOMAIN State /\ BuiltFrom(State[v], Last(fed[v]))

\* C20 (one step): no vehicle id ever leaves STATE.
C20_NeverDeleted == DOMAIN State \subseteq DOMAIN State'

\* C20: a vehicle's state is created by the first record for its id, replaced by
\* every later one and never deleted.
C20_StateOnlyGrows == []C20_CreatedAndReplaced /\ [][C20_NeverDeleted]_vars

\* C20 happens: two vehicles have a state, and the state of one of them is that
\* of its second record, which replaced the first.
C20_Witness ==
    /\ InFlight = {}
    /\ Cardinality(DOMAIN State) = 2
    /\ \E v \in Vehicles :
          /\ Len(fed[v]) = 2
          /\ State[v].seq = fed[v][2].seq
          /\ State[v].seq # fed[v][1].seq

---------------------------------------------------------------------------
(* The speed window under concurrent callers (Spec) *)

\* this step is the lrange of get_moving_stats in call t
ReadsSpeeds(t) == task[t].pc = "lrange_spd" /\ task'[t].pc # "lrange_spd"

\* C17 (one step): the lrange of get_moving_stats returns at most 60 samples.
C17_OnRead ==
    \A t \in Tasks : ReadsSpeeds(t) => Len(Speeds(VehicleOf(t))) <= SpeedWindow

\* C17: push+trim appears atomic to readers: no read of a speed window returns
\* more than 60 samples, whatever another update is doing.
C17_ReadAtMostWindow == [][C17_OnRead]_vars

---------------------------------------------------------------------------
(* The standalone detector (SpecDetector) *)

\* C21: is_ghost_bus of detector.py returns False for every input: is_bus_stuck
\* is always False, so the score is 0, or 0.4 for a stale record, and never
\* exceeds 0.6.
C21_NeverGhost ==
    verdict # None =>
        /\ verdict[1].is_ghost = FALSE
        /\ verdict[1].ghost_score = IF verdict[1].stale THEN 40 ELSE 0
        /\ verdict[1].ghost_score <= 60

\* C21 happens: a record older than 90 s was scored 0.4 and found no ghost.
C21_Witness ==
    /\ verdict # None
    /\ "timestamp" \in DOMAIN verdict[1].bus_data
    /\ verdict[1].current_time - verdict[1].bus_data.timestamp > 90
    /\ verdict[1].ghost_score = 40
    /\ verdict[1].is_ghost = FALSE

===========================================================================
